---- MODULE Spec2Model ----
(***************************************************************************)
(* concat_archivos.py: walk a directory tree, filter the files found and   *)
(* concatenate the text of the accepted ones into one output file.         *)
(*                                                                         *)
(* File names are sequences of one-character strings, file contents are    *)
(* sequences of bytes (0..255) and decoded text is a sequence of code      *)
(* points.                                                                 *)
(***************************************************************************)
EXTENDS Integers, Sequences, FiniteSets, TLC

(***************************************************************************)
(* Characters                                                              *)
(***************************************************************************)

\* The printable ASCII characters, in code order: Ascii[i] has code 31 + i
\* (the double quote, the backslash and the backtick are spelled out).
Ascii ==
    << " ", "!", "dquote", "#", "$", "%", "&", "'", "(", ")", "*", "+", ",", "-", ".", "/",
       "0", "1", "2", "3", "4", "5", "6", "7", "8", "9", ":", ";", "<", "=", ">", "?",
       "@", "A", "B", "C", "D", "E", "F", "G", "H", "I", "J", "K", "L", "M", "N", "O",
       "P", "Q", "R", "S", "T", "U", "V", "W", "X", "Y", "Z", "[", "backslash", "]", "^", "_",
       "backtick", "a", "b", "c", "d", "e", "f", "g", "h", "i", "j", "k", "l", "m", "n", "o",
       "p", "q", "r", "s", "t", "u", "v", "w", "x", "y", "z", "{", "|", "}", "~" >>

Ord(c) == 31 + (CHOOSE i \in 1..Len(Ascii) : Ascii[i] = c)

\* str.lower() on one ASCII character
Lower(c) == IF Ord(c) >= 65 /\ Ord(c) <= 90 THEN Ascii[Ord(c) + 32 - 31] ELSE c

LowerStr(s) == [i \in 1..Len(s) |-> Lower(s[i])]

\* the code points of an ASCII string
Codes(s) == [i \in 1..Len(s) |-> Ord(s[i])]

Front(s) == SubSeq(s, 1, Len(s) - 1)

Last(s) == s[Len(s)]

\* str.startswith(".")
StartsWithDot(s) == Len(s) > 0 /\ s[1] = "."

(***************************************************************************)
(* Process-wide constants                                                  *)
(***************************************************************************)

DEFAULT_EXCLUDED_DIRS == {
    <<".","g","i","t">>, <<"n","o","d","e","_","m","o","d","u","l","e","s">>,
    <<"t","a","r","g","e","t">>, <<"b","i","n">>, <<"o","b","j">>,
    <<"b","u","i","l","d">>, <<"d","i","s","t">>, <<"v","e","n","d","o","r">>,
    <<"_","_","p","y","c","a","c","h","e","_","_">> }

DEFAULT_EXCLUDED_EXTS == {
    <<".","p","n","g">>, <<".","j","p","g">>, <<".","j","p","e","g">>,
    <<".","g","i","f">>, <<".","w","e","b","p">>, <<".","b","m","p">>,
    <<".","i","c","o">>, <<".","p","s","d">>, <<".","p","d","f">>, <<".","z","i","p">>,
    <<".","r","a","r">>, <<".","7","z">>, <<".","t","a","r">>, <<".","g","z">>,
    <<".","b","z","2">>, <<".","x","z">>, <<".","m","p","3">>, <<".","w","a","v">>,
    <<".","o","g","g">>, <<".","f","l","a","c">>, <<".","m","p","4">>,
    <<".","m","o","v">>, <<".","a","v","i">>, <<".","m","k","v">>,
    <<".","w","e","b","m">>, <<".","t","t","f">>, <<".","o","t","f">>,
    <<".","w","o","f","f">>, <<".","w","o","f","f","2">>, <<".","e","x","e">>,
    <<".","d","l","l">>, <<".","s","o">>, <<".","d","y","l","i","b">>, <<".","a">>,
    <<".","o">>, <<".","c","l","a","s","s">>, <<".","j","a","r">>,
    <<".","b","l","e","n","d">>, <<".","f","b","x">>, <<".","o","b","j">>,
    <<".","g","l","b">>, <<".","g","l","t","f">> }

\* is_probably_text(path, sample_size=4096)
SampleSize == 4096

\* --max-bytes default
DefaultMaxBytes == 1000000

(***************************************************************************)
(* os.path.splitext(base)[1]: the text from the last dot on, unless only   *)
(* dots come before that dot (a leading-dot name has no extension).        *)
(***************************************************************************)
LastDot(s) ==
    IF \E i \in 1..Len(s) : s[i] = "."
    THEN CHOOSE i \in 1..Len(s) : s[i] = "." /\ \A j \in (i+1)..Len(s) : s[j] # "."
    ELSE 0

SplitExt(base) ==
    LET d == LastDot(base) IN
    IF d > 0 /\ \E k \in 1..(d-1) : base[k] # "."
    THEN SubSeq(base, d, Len(base))
    ELSE <<>>

(***************************************************************************)
(* fnmatch.fnmatch(name, pat) for patterns made of literal characters,     *)
(* "*" (any run of characters) and "?" (any one character).  On POSIX      *)
(* os.path.normcase is the identity, so the match is case-sensitive, and   *)
(* it is a match of the whole name.                                        *)
(***************************************************************************)
RECURSIVE GlobMatch(_, _, _, _)
GlobMatch(name, i, pat, j) ==
    IF j > Len(pat) THEN i > Len(name)
    ELSE IF pat[j] = "*"
         THEN GlobMatch(name, i, pat, j + 1)
              \/ (i <= Len(name) /\ GlobMatch(name, i + 1, pat, j))
         ELSE /\ i <= Len(name)
              /\ (pat[j] = "?" \/ pat[j] = name[i])
              /\ GlobMatch(name, i + 1, pat, j + 1)

fnmatch(name, pat) == GlobMatch(name, 1, pat, 1)

\* match_any(patterns, name)
match_any(patterns, name) == \E k \in 1..Len(patterns) : fnmatch(name, patterns[k])

(***************************************************************************)
(* is_probably_text on the bytes of a file.  openFails: open(path, "rb")   *)
(* or the read raised.                                                     *)
(***************************************************************************)
TextBytes == (32..126) \cup {10, 13, 9, 12, 8}

Printable(chunk) == Cardinality({i \in 1..Len(chunk) : chunk[i] \in TextBytes})

is_probably_text(bytes, openFails) ==
    IF openFails THEN FALSE
    ELSE LET chunk == SubSeq(bytes, 1, IF Len(bytes) < SampleSize THEN Len(bytes) ELSE SampleSize) IN
         IF \E i \in 1..Len(chunk) : chunk[i] = 0 THEN FALSE
         ELSE IF Len(chunk) = 0 THEN TRUE
         ELSE Printable(chunk) * 100 > 85 * Len(chunk)

(***************************************************************************)
(* Text input and output.                                                  *)
(* open(path, "r", encoding=args.encoding, errors="replace").read():       *)
(* decode the bytes, one U+FFFD for every maximal ill-formed part, then    *)
(* translate "\r\n" and "\r" to "\n" (universal newlines).                 *)
(***************************************************************************)
Replacement == 65533

InRange(b, i, lo, hi) == i <= Len(b) /\ b[i] >= lo /\ b[i] <= hi

\* <<code point, bytes consumed>> of the UTF-8 decoder at b[i]
Utf8Step(b, i) ==
    LET c == b[i] IN
    IF c < 128 THEN <<c, 1>>
    ELSE IF c < 194 \/ c > 244 THEN <<Replacement, 1>>
    ELSE IF c < 224
         THEN IF InRange(b, i + 1, 128, 191)
              THEN <<(c - 192) * 64 + (b[i+1] - 128), 2>>
              ELSE <<Replacement, 1>>
    ELSE IF c < 240
         THEN LET lo == IF c = 224 THEN 160 ELSE 128
                  hi == IF c = 237 THEN 159 ELSE 191
              IN  IF ~InRange(b, i + 1, lo, hi) THEN <<Replacement, 1>>
                  ELSE IF ~InRange(b, i + 2, 128, 191) THEN <<Replacement, 2>>
                  ELSE <<(c - 224) * 4096 + (b[i+1] - 128) * 64 + (b[i+2] - 128), 3>>
    ELSE LET lo == IF c = 240 THEN 144 ELSE 128
             hi == IF c = 244 THEN 143 ELSE 191
         IN  IF ~InRange(b, i + 1, lo, hi) THEN <<Replacement, 1>>
             ELSE IF ~InRange(b, i + 2, 128, 191) THEN <<Replacement, 2>>
             ELSE IF ~InRange(b, i + 3, 128, 191) THEN <<Replacement, 3>>
             ELSE <<(c - 240) * 262144 + (b[i+1] - 128) * 4096
                      + (b[i+2] - 128) * 64 + (b[i+3] - 128), 4>>

RECURSIVE DecodeUtf8(_, _)
DecodeUtf8(b, i) ==
    IF i > Len(b) THEN <<>>
    ELSE LET s == Utf8Step(b, i) IN <<s[1]>> \o DecodeUtf8(b, i + s[2])

\* the encodings of the model: any other name makes open() raise LookupError
KnownEncodings == {"utf-8", "latin-1"}

Decode(b, encoding) == IF encoding = "utf-8" THEN DecodeUtf8(b, 1) ELSE b

RECURSIVE UniversalNewlines(_, _)
UniversalNewlines(t, i) ==
    IF i > Len(t) THEN <<>>
    ELSE IF t[i] = 13
         THEN <<10>> \o UniversalNewlines(t, IF i < Len(t) /\ t[i+1] = 10 THEN i + 2 ELSE i + 1)
         ELSE <<t[i]>> \o UniversalNewlines(t, i + 1)

\* f.read() of a file opened in text mode
ReadText(b, encoding) == UniversalNewlines(Decode(b, encoding), 1)

\* the UTF-8 bytes of one code point (the output is opened with encoding="utf-8")
Utf8Bytes(c) ==
    IF c < 128 THEN <<c>>
    ELSE IF c < 2048 THEN <<192 + (c \div 64), 128 + (c % 64)>>
    ELSE IF c < 65536 THEN <<224 + (c \div 4096), 128 + ((c \div 64) % 64), 128 + (c % 64)>>
    ELSE <<240 + (c \div 262144), 128 + ((c \div 4096) % 64), 128 + ((c \div 64) % 64), 128 + (c % 64)>>

RECURSIVE EncodeUtf8(_)
EncodeUtf8(t) == IF t = <<>> THEN <<>> ELSE Utf8Bytes(Head(t)) \o EncodeUtf8(Tail(t))

\* str.endswith("\n")
EndsWithNewline(t) == Len(t) > 0 /\ t[Len(t)] = 10

(***************************************************************************)
(* The file system.  A node is a directory (with its entries in the order  *)
(* os.scandir lists them), a regular file (its bytes, and the error its    *)
(* access raises: "stat" for os.path.getsize, "open" for open(path, "rb"), *)
(* "read" for the read in text mode), a symbolic link to a directory of    *)
(* the tree (target: the directory's path below the root), or the output   *)
(* file itself when args.output lies in the tree.                          *)
(***************************************************************************)
Dir(name, entries) ==
    [kind |-> "dir", name |-> name, entries |-> entries, bytes |-> <<>>, err |-> "none", target |-> <<>>]

File(name, bytes, err) ==
    [kind |-> "file", name |-> name, entries |-> <<>>, bytes |-> bytes, err |-> err, target |-> <<>>]

Link(name, target) ==
    [kind |-> "link", name |-> name, entries |-> <<>>, bytes |-> <<>>, err |-> "none", target |-> target]

OutFile(name) ==
    [kind |-> "out", name |-> name, entries |-> <<>>, bytes |-> <<>>, err |-> "none", target |-> <<>>]

\* the entry of a directory node with a given name
Entry(node, name) == node.entries[CHOOSE i \in 1..Len(node.entries) : node.entries[i].name = name]

\* the node at a link-free path below the root
RECURSIVE NodeAt(_, _)
NodeAt(node, path) ==
    IF path = <<>> THEN node ELSE NodeAt(Entry(node, Head(path)), Tail(path))

\* the elements of a sequence that satisfy a test, in order
RECURSIVE SelectSeq2(_, _)
SelectSeq2(s, keep) ==
    IF s = <<>> THEN <<>>
    ELSE (IF Head(s) \in keep THEN <<Head(s)>> ELSE <<>>) \o SelectSeq2(Tail(s), keep)

(***************************************************************************)
(* Bounds of the model                                                     *)
(***************************************************************************)
\* invocations of the tool in one behaviour
MaxRuns == 2
\* the size limit given with --max-bytes in the small cases
SmallMaxBytes == 2
\* the output stream (io.TextIOWrapper over io.BufferedWriter over the file):
\* the text layer passes its pending bytes on in chunks of ChunkSize (8192)
\* and the buffered layer holds up to BlockSize bytes (the file system's
\* st_blksize, commonly 4096); both scaled down
ChunkSize == 8
BlockSize == 4
\* symbolic links the system follows while it resolves one path; a path
\* with more of them cannot be resolved (ELOOP; 40 on Linux, scaled down)
SymlinkMax == 2

VARIABLES
    args,      \* the parsed command line (argparse namespace)
    fs,        \* rootPath, rootKind, tree: what args.folder names
    disk,      \* the file at args.output: [exists, data]
    pend,      \* out: bytes pending in the text layer
    buf,       \* out: bytes held by the buffered layer, not yet in the file
    pc,        \* "start", "loop" (inside the with block), "done", "exited"
    stack,     \* os.walk: directories still to list, next first
    pending,   \* walk_files: files of the listed directory not yet yielded
    count,     \* main's count
    exitCode,  \* -1 while running
    stderr,    \* messages on sys.stderr
    stdout,    \* the summary lines printed: [count]
    blocks,    \* history: the files a block was written for, in order
    run,       \* which invocation this is
    prev       \* history: the output file as the previous invocation left it

vars == <<args, fs, disk, pend, buf, pc, stack, pending, count, exitCode, stderr, stdout, blocks, run, prev>>

(***************************************************************************)
(* walk_files                                                              *)
(***************************************************************************)
\* a path of the traversal: disp are the names below the root as os.walk
\* joins them, phys is the link-free path of the node they lead to, links
\* is the number of symbolic links among disp
Frame(disp, phys, links) == [disp |-> disp, phys |-> phys, links |-> links]

Child(fr, e) ==
    IF e.kind = "link"
    THEN Frame(Append(fr.disp, e.name), e.target, fr.links + 1)
    ELSE Frame(Append(fr.disp, e.name), Append(fr.phys, e.name), fr.links)

\* the system can resolve the path
Resolves(fr) == fr.links <= SymlinkMax

\* os.scandir(top): the output file is listed once it exists
Listing(fr) ==
    LET es == NodeAt(fs.tree, fr.phys).entries IN
    SelectSeq2(es, {e \in {es[i] : i \in 1..Len(es)} : e.kind # "out" \/ disk.exists})

\* entry.is_dir(): directories and links to directories; os.walk takes an
\* entry whose is_dir() raises OSError for a non-directory
IsDirEntry(fr, e) == e.kind = "dir" \/ (e.kind = "link" /\ Resolves(Child(fr, e)))

\* variant: only hidden directories are removed
Pruned_HiddenOnly(name) == StartsWithDot(name)

\* walk_files removes these from dirnames
Pruned(name) == name \in DEFAULT_EXCLUDED_DIRS \/ StartsWithDot(name)

\* os.walk descends into a directory left in dirnames unless it is a link
\* and followlinks is false
Descends(e) == args.follow_symlinks \/ e.kind # "link"

MapChild(fr, es) == [i \in 1..Len(es) |-> Child(fr, es[i])]

FileNames(fr) ==
    LET es == Listing(fr) IN
    MapChild(fr, SelectSeq2(es, {e \in {es[i] : i \in 1..Len(es)} : ~IsDirEntry(fr, e)}))

SubDirs(fr) ==
    LET es == Listing(fr) IN
    MapChild(fr, SelectSeq2(es, {e \in {es[i] : i \in 1..Len(es)} :
                                   IsDirEntry(fr, e) /\ ~Pruned(e.name) /\ Descends(e)}))

(***************************************************************************)
(* should_skip_file                                                        *)
(***************************************************************************)
\* what the program can observe of the file a path names
Observe(fr) ==
    LET n == NodeAt(fs.tree, fr.phys) IN
    IF ~Resolves(fr) THEN [bytes |-> <<>>, err |-> "stat"]
    ELSE IF n.kind = "out" THEN [bytes |-> disk.data, err |-> "none"]
    ELSE [bytes |-> n.bytes, err |-> n.err]

basename(fr) == Last(fr.disp)

\* variant: hidden files are skipped whatever --show-hidden says
HiddenRule_IgnoresFlag(base) == StartsWithDot(base)

HiddenRule(base) == ~args.show_hidden /\ StartsWithDot(base)

\* variant: the size limit is exclusive
SizeRule_Exclusive(obs) == obs.err = "stat" \/ Len(obs.bytes) >= args.max_bytes

SizeRule(obs) == obs.err = "stat" \/ Len(obs.bytes) > args.max_bytes

\* variant: the extension rule applies even with --include
ExtRule_NoBypass(base) == LowerStr(SplitExt(base)) \in DEFAULT_EXCLUDED_EXTS

ExtRule(base) == LowerStr(SplitExt(base)) \in DEFAULT_EXCLUDED_EXTS /\ args.include = <<>>

ExcludeRule(base) == args.exclude # <<>> /\ match_any(args.exclude, base)

IncludeRule(base) == args.include # <<>> /\ ~match_any(args.include, base)

SniffRule(obs) == ~is_probably_text(obs.bytes, obs.err = "open")

should_skip_file(fr) ==
    LET base == basename(fr)
        obs == Observe(fr)
    IN  IF HiddenRule(base) THEN TRUE
        ELSE IF SizeRule(obs) THEN TRUE
        ELSE IF ExtRule(base) THEN TRUE
        ELSE IF ExcludeRule(base) THEN TRUE
        ELSE IF IncludeRule(base) THEN TRUE
        ELSE IF SniffRule(obs) THEN TRUE
        ELSE FALSE

(***************************************************************************)
(* main                                                                    *)
(***************************************************************************)
\* os.path.relpath(path, root): the names below the root joined with "/"
RECURSIVE relpath(_)
relpath(disp) ==
    IF Len(disp) = 1 THEN Codes(disp[1])
    ELSE Codes(Head(disp)) \o <<47>> \o relpath(Tail(disp))

Header(fr) == IF args.use_path THEN relpath(fr.disp) ELSE Codes(basename(fr))

\* the open(...) and f.read() in the try block raise
ReadFails(obs) == obs.err \in {"open", "read"} \/ args.encoding \notin KnownEncodings

\* The output stream is [disk, buf, pend].
\* BufferedWriter.write(data): data that fits is kept; otherwise the held
\* bytes go to the file, and so does data itself unless it fits now
BufferedWrite(o, data) ==
    IF Len(data) <= BlockSize - Len(o.buf)
    THEN [o EXCEPT !.buf = @ \o data]
    ELSE IF Len(data) > BlockSize
         THEN [o EXCEPT !.disk.data = @ \o o.buf \o data, !.buf = <<>>]
         ELSE [o EXCEPT !.disk.data = @ \o o.buf, !.buf = data]

\* TextIOWrapper's flush of its pending bytes into the buffered layer
TextFlush(o) == IF o.pend = <<>> THEN o ELSE [BufferedWrite(o, o.pend) EXCEPT !.pend = <<>>]

\* out.write(text): the encoded text joins the pending bytes (which are
\* passed on first when both together exceed a chunk), and the pending
\* bytes are passed on once they reach a chunk
Write(o, text) ==
    LET b == EncodeUtf8(text)
        o1 == IF o.pend # <<>> /\ Len(o.pend) + Len(b) > ChunkSize THEN TextFlush(o) ELSE o
        o2 == [o1 EXCEPT !.pend = @ \o b]
    IN  IF Len(o2.pend) >= ChunkSize THEN TextFlush(o2) ELSE o2

\* out.close(), at the end of the with block: everything reaches the file
Close(o) ==
    LET o1 == TextFlush(o) IN [o1 EXCEPT !.disk.data = @ \o o1.buf, !.buf = <<>>]

\* the stream as main holds it
Out == [disk |-> disk, buf |-> buf, pend |-> pend]

\* variant: the newline is added whatever the content ends with
WriteBlock_AlwaysNewline(o, header, content) ==
    Write(Write(Write(Write(o, header \o <<58, 10>>), content), <<10>>), <<10>>)

\* the four writes of a block
WriteBlock(o, header, content) ==
    LET o1 == Write(o, header \o <<58, 10>>)
        o2 == Write(o1, content)
        o3 == IF ~EndsWithNewline(content) THEN Write(o2, <<10>>) ELSE o2
    IN  Write(o3, <<10>>)

\* variant: the output is opened for appending
OpenOutput_Append == [exists |-> TRUE, data |-> disk.data]

\* variant: the output is opened without being created
OpenOutput_NoCreate == [disk EXCEPT !.data = <<>>]

\* open(args.output, "w", ...): creates the file or truncates it
OpenOutput == [exists |-> TRUE, data |-> <<>>]

\* variant: the output is opened before the root is checked
StartFail_OpensFirst ==
    /\ pc = "start"
    /\ fs.rootKind # "dir"
    /\ disk' = OpenOutput
    /\ stderr' = Append(stderr, "La ruta no es una carpeta")
    /\ exitCode' = 1
    /\ pc' = "exited"
    /\ UNCHANGED <<args, fs, pend, buf, stack, pending, count, stdout, blocks, run, prev>>

\* lines 121-124: the root is not a directory
StartFail ==
    /\ pc = "start"
    /\ fs.rootKind # "dir"
    /\ stderr' = Append(stderr, "La ruta no es una carpeta")
    /\ exitCode' = 1
    /\ pc' = "exited"
    /\ UNCHANGED <<args, fs, disk, pend, buf, stack, pending, count, stdout, blocks, run, prev>>

\* lines 121-128: count = 0, the output is opened and the traversal created
StartOpen ==
    /\ pc = "start"
    /\ fs.rootKind = "dir"
    /\ count' = 0
    /\ disk' = OpenOutput
    /\ pend' = <<>>
    /\ buf' = <<>>
    /\ stack' = <<Frame(<<>>, <<>>, 0)>>
    /\ pending' = <<>>
    /\ pc' = "loop"
    /\ UNCHANGED <<args, fs, exitCode, stderr, stdout, blocks, run, prev>>

\* variant: the listed directory stays first among those to list
WalkDir_NoPop ==
    /\ pc = "loop"
    /\ pending = <<>>
    /\ stack # <<>>
    /\ pending' = FileNames(Head(stack))
    /\ stack' = SubDirs(Head(stack)) \o stack
    /\ UNCHANGED <<args, fs, disk, pend, buf, pc, count, exitCode, stderr, stdout, blocks, run, prev>>

\* lines 85-95: os.walk lists the next directory, walk_files prunes dirnames
WalkDir ==
    /\ pc = "loop"
    /\ pending = <<>>
    /\ stack # <<>>
    /\ pending' = FileNames(Head(stack))
    /\ stack' = SubDirs(Head(stack)) \o Tail(stack)
    /\ UNCHANGED <<args, fs, disk, pend, buf, pc, count, exitCode, stderr, stdout, blocks, run, prev>>

\* variant: the header is written before the file is read
ProcessFile_HeaderFirst ==
    /\ pc = "loop"
    /\ pending # <<>>
    /\ LET fr == Head(pending)
           obs == Observe(fr)
           o1 == Write(Out, Header(fr) \o <<58, 10>>)
       IN  IF should_skip_file(fr)
           THEN UNCHANGED <<disk, pend, buf, count, blocks>>
           ELSE IF ReadFails(obs)
           THEN /\ disk' = o1.disk
                /\ pend' = o1.pend
                /\ buf' = o1.buf
                /\ UNCHANGED <<count, blocks>>
           ELSE LET content == ReadText(obs.bytes, args.encoding)
                    o2 == Write(o1, content)
                    o3 == IF ~EndsWithNewline(content) THEN Write(o2, <<10>>) ELSE o2
                    o == Write(o3, <<10>>)
                IN  /\ disk' = o.disk
                    /\ pend' = o.pend
                    /\ buf' = o.buf
                    /\ count' = count + 1
                    /\ blocks' = Append(blocks, [disp |-> fr.disp, phys |-> fr.phys,
                                                  links |-> fr.links, bytes |-> obs.bytes])
    /\ pending' = Tail(pending)
    /\ UNCHANGED <<args, fs, pc, stack, exitCode, stderr, stdout, run, prev>>

\* lines 128-149: one iteration of the for loop
ProcessFile ==
    /\ pc = "loop"
    /\ pending # <<>>
    /\ LET fr == Head(pending)
           obs == Observe(fr)
       IN  IF should_skip_file(fr) \/ ReadFails(obs)
           THEN UNCHANGED <<disk, pend, buf, count, blocks>>
           ELSE LET content == ReadText(obs.bytes, args.encoding)
                    o == WriteBlock(Out, Header(fr), content)
                IN  /\ disk' = o.disk
                    /\ pend' = o.pend
                    /\ buf' = o.buf
                    /\ count' = count + 1
                    /\ blocks' = Append(blocks, [disp |-> fr.disp, phys |-> fr.phys,
                                                  links |-> fr.links, bytes |-> obs.bytes])
    /\ pending' = Tail(pending)
    /\ UNCHANGED <<args, fs, pc, stack, exitCode, stderr, stdout, run, prev>>

\* lines 127, 151: the traversal is exhausted, the with block closes the
\* output and the summary is printed
Finish ==
    /\ pc = "loop"
    /\ pending = <<>>
    /\ stack = <<>>
    /\ disk' = Close(Out).disk
    /\ pend' = <<>>
    /\ buf' = <<>>
    /\ stdout' = Append(stdout, [count |-> count])
    /\ exitCode' = 0
    /\ pc' = "done"
    /\ UNCHANGED <<args, fs, stack, pending, count, stderr, blocks, run, prev>>

\* the tool is run again with the same command line on the same directory
Rerun ==
    /\ pc = "done"
    /\ run < MaxRuns
    /\ run' = run + 1
    /\ prev' = disk
    /\ pc' = "start"
    /\ exitCode' = -1
    /\ stdout' = <<>>
    /\ blocks' = <<>>
    /\ UNCHANGED <<args, fs, disk, pend, buf, stack, pending, count, stderr>>

Next == StartFail \/ StartOpen \/ WalkDir \/ ProcessFile \/ Finish \/ Rerun

(***************************************************************************)
(* The inputs: command lines and directory trees                           *)
(***************************************************************************)
\* n bytes of text ending in a newline
TextOfSize(n) == [i \in 1..n |-> IF i = n THEN 10 ELSE 97]

DefaultArgs ==
    [show_hidden |-> FALSE, include |-> <<>>, exclude |-> <<>>, max_bytes |-> DefaultMaxBytes,
     use_path |-> FALSE, follow_symlinks |-> FALSE, encoding |-> "utf-8"]

\* the file at the output path before the first run: none, or an older one
DiskBefore == {[exists |-> FALSE, data |-> <<>>], [exists |-> TRUE, data |-> <<111, 108, 100, 10>>]}

OutName == <<"o",".","t","x","t">>

\* Filtering: one file with varied name, content and access errors, beside
\* the output file (when it lies in the root) and a subdirectory.
FilterNames == {<<"a",".","p","y">>, <<".","s","e","c","r","e","t">>, <<"b",".","p","n","g">>, <<"B",".","P","N","G">>, <<"x",".","m","d">>}

FilterBytes ==
    { <<>>,                                  \* empty
      <<97>>,                                \* no newline at the end
      TextOfSize(SmallMaxBytes),             \* exactly the small limit
      TextOfSize(SmallMaxBytes + 1),         \* one byte more
      <<97, 0>>,                             \* a NUL byte
      <<97, 13, 10>>,                        \* "\r\n"
      <<97, 98, 99, 100, 101, 102, 200, 10>>, \* text with one ill-formed byte
      <<200>> }                              \* not text

FilterFiles ==
    {File(n, b, "none") : n \in FilterNames, b \in FilterBytes}
    \cup {File(<<"a",".","p","y">>, b, e) : b \in {TextOfSize(SmallMaxBytes), TextOfSize(SmallMaxBytes + 1)},
                                e \in {"stat", "open", "read"}}

FilterArgs ==
    [show_hidden : BOOLEAN,
     include : {<<>>, <<<<"*",".","m","d">>>>, <<<<"?",".","p","y">>, <<"*",".","p","*">>>>},
     exclude : {<<>>, <<<<"a","*">>>>},
     max_bytes : {SmallMaxBytes, DefaultMaxBytes},
     use_path : BOOLEAN,
     follow_symlinks : {FALSE},
     encoding : {"utf-8", "latin-1", "klingon"}]

FilterTree(f, outIn) ==
    Dir(<<"p">>, <<f>> \o (IF outIn THEN <<OutFile(OutName)>> ELSE <<>>)
               \o <<Dir(<<"s","r","c">>, <<File(<<"y",".","t","x","t">>, TextOfSize(SmallMaxBytes + 1), "none")>>)>>)

FilterInputs ==
    { [args |-> a, fs |-> [rootPath |-> <<<<"w">>, <<"p">>>>, rootKind |-> "dir", tree |-> FilterTree(f, o)]] :
        a \in FilterArgs, f \in FilterFiles, o \in BOOLEAN }

\* Traversal: a root at several places, two nested directories with varied
\* names, and symbolic links to directories.
WalkRoots == {<<<<"w">>, <<"p">>>>, <<<<"w">>, <<"b","u","i","l","d">>, <<"p">>>>, <<<<"w">>, <<"d","i","s","t">>>>, <<<<"w">>, <<".","h">>>>}

WalkArgs ==
    {[DefaultArgs EXCEPT !.show_hidden = h, !.use_path = u, !.follow_symlinks = f] :
        h \in BOOLEAN, u \in BOOLEAN, f \in BOOLEAN}

\* ln: a link in the root to a directory below it;  up: a link in the
\* innermost directory to one of its ancestors
WalkTree(r, f1, d1, d2, ln, up) ==
    Dir(Last(r),
        <<File(f1, <<97, 10>>, "none")>>
        \o (IF ln = "d1" THEN <<Link(<<"l","n">>, <<d1>>)>>
            ELSE IF ln = "d2" THEN <<Link(<<"l","n">>, <<d1, d2>>)>> ELSE <<>>)
        \o <<Dir(d1, << File(<<"m",".","p","y">>, <<109, 10>>, "none"),
                        Dir(d2, <<File(<<"k",".","p","y">>, <<107>>, "none")>>
                                \o (IF up = "root" THEN <<Link(<<"u","p">>, <<>>)>>
                                    ELSE IF up = "d1" THEN <<Link(<<"u","p">>, <<d1>>)>> ELSE <<>>)) >>)>>)

WalkTrees(ups) ==
    { [rootPath |-> r, rootKind |-> "dir", tree |-> WalkTree(r, f1, d1, d2, ln, up)] :
        r \in WalkRoots, f1 \in {<<"a",".","p","y">>, <<".","s">>}, d1 \in {<<"s","r","c">>, <<"d","i","s","t">>, <<".","x">>},
        d2 \in {<<"s","u","b">>, <<"o","b","j">>}, ln \in {"none", "d1", "d2"}, up \in ups }

WalkInputs == { [args |-> a, fs |-> f] : a \in WalkArgs, f \in WalkTrees({"none", "root", "d1"}) }

\* args.folder names a regular file, or nothing
NotDirInputs ==
    { [args |-> a, fs |-> [rootPath |-> <<<<"w">>, <<"p">>>>, rootKind |-> k, tree |-> Dir(<<"p">>, <<>>)]] :
        a \in {x \in WalkArgs : ~x.show_hidden}, k \in {"file", "missing"} }

InitWith(inputs) ==
    /\ \E i \in inputs : args = i.args /\ fs = i.fs
    /\ disk \in DiskBefore
    /\ pend = <<>>
    /\ buf = <<>>
    /\ pc = "start"
    /\ stack = <<>>
    /\ pending = <<>>
    /\ count = 0
    /\ exitCode = -1
    /\ stderr = <<>>
    /\ stdout = <<>>
    /\ blocks = <<>>
    /\ run = 1
    /\ prev = [exists |-> FALSE, data |-> <<>>]

Init == InitWith(FilterInputs \cup WalkInputs \cup NotDirInputs)

Spec == Init /\ [][Next]_vars

InitWalk == InitWith(WalkInputs \cup NotDirInputs)

\* some action can be taken: the guards of the actions of Next
NextEnabled ==
    \/ pc = "start" /\ fs.rootKind # "dir"
    \/ pc = "start" /\ fs.rootKind = "dir"
    \/ pc = "loop" /\ pending = <<>> /\ stack # <<>>
    \/ pc = "loop" /\ pending # <<>>
    \/ pc = "loop" /\ pending = <<>> /\ stack = <<>>
    \/ pc = "done" /\ run < MaxRuns

\* the program is sequential: it takes its next step whenever it has one.
\* This is WF_vars(Next) with ENABLED <<Next>>_vars written out.
Fairness == ([]<>(~NextEnabled)) \/ ([]<><<Next>>_vars)

SpecWalk == InitWalk /\ [][Next]_vars /\ Fairness

(***************************************************************************)
(* Properties                                                              *)
(***************************************************************************)
\* every byte written to the output stream so far
OutData == disk.data \o buf \o pend

Range(s) == {s[i] : i \in 1..Len(s)}

\* the loop is about to handle the file Cur
Processing == pc = "loop" /\ pending # <<>>

Cur == Head(pending)

CurName == Last(Cur.disp)

CurBytes == Observe(Cur).bytes

\* the rules of the filter, each in the words of the specification
IsHiddenName(name) == Len(name) > 0 /\ name[1] = "."

SizeWithinLimit == Observe(Cur).err # "stat" /\ Len(CurBytes) <= args.max_bytes

ExtensionExcluded(name) == LowerStr(SplitExt(name)) \in DEFAULT_EXCLUDED_EXTS

MatchesInclude(name) == \E k \in 1..Len(args.include) : fnmatch(name, args.include[k])

MatchesExclude(name) == \E k \in 1..Len(args.exclude) : fnmatch(name, args.exclude[k])

LooksLikeText == is_probably_text(CurBytes, Observe(Cur).err = "open")

ReadableAsText == Observe(Cur).err \notin {"open", "read"} /\ args.encoding \in KnownEncodings

\* the names of a path joined with "/"
RECURSIVE PathText(_)
PathText(disp) ==
    IF disp = <<>> THEN <<>>
    ELSE IF Len(disp) = 1 THEN Codes(disp[1])
    ELSE Codes(disp[1]) \o <<47>> \o PathText(Tail(disp))

\* the block of a file: header, ":", newline, content, a newline unless the
\* content ends with one, and the blank-line separator
BlockText(disp, bytes) ==
    LET content == ReadText(bytes, args.encoding)
        header == IF args.use_path THEN PathText(disp) ELSE Codes(Last(disp))
    IN  header \o <<58, 10>> \o content
        \o (IF content # <<>> /\ content[Len(content)] = 10 THEN <<>> ELSE <<10>>)
        \o <<10>>

\* this step appends the block of Cur to the output and counts it
EmitsBlock == OutData' = OutData \o EncodeUtf8(BlockText(Cur.disp, CurBytes)) /\ count' = count + 1

\* this step writes nothing and counts nothing
WritesNothing == OutData' = OutData /\ count' = count

RECURSIVE ExpectedOut(_)
ExpectedOut(bs) ==
    IF bs = <<>> THEN <<>>
    ELSE EncodeUtf8(BlockText(Head(bs).disp, Head(bs).bytes)) \o ExpectedOut(Tail(bs))

\* the directories a block's file lies beneath: by the names of its path
\* below the root, and by the names of the directories that hold it (the
\* root and its ancestors included)
DirsOnPath(b) == Range(Front(b.disp))

DirsAbove(b) == Range(fs.rootPath) \cup Range(Front(b.phys))

----------------------------------------------------------------------------
\* C1, as stated: no block is written for a file beneath a directory whose
\* name is in the default-excluded set, whatever the root and the options.
C1_NoFileBeneathExcludedDir ==
    \A i \in 1..Len(blocks) : DirsAbove(blocks[i]) \cap DEFAULT_EXCLUDED_DIRS = {}

\* C1, amended: no block is written for a path that passes, below the root,
\* through a directory entry whose name is in the default-excluded set.
C1_NoExcludedDirOnPath ==
    \A i \in 1..Len(blocks) : DirsOnPath(blocks[i]) \cap DEFAULT_EXCLUDED_DIRS = {}

\* an excluded directory with a file two levels down was passed by, and
\* other files were written
C1_Witness ==
    /\ pc = "done"
    /\ Len(blocks) >= 1
    /\ \E i \in 1..Len(fs.tree.entries) :
         LET d == fs.tree.entries[i] IN
         /\ d.kind = "dir" /\ d.name \in DEFAULT_EXCLUDED_DIRS
         /\ \E j \in 1..Len(d.entries) : d.entries[j].kind = "dir" /\ d.entries[j].entries # <<>>

----------------------------------------------------------------------------
\* C2, as stated: with include patterns, every file written matches one of
\* them, and a file with an excluded extension that matches one and passes
\* the hidden, size, exclude and text-sniff rules is written.
C2_IncludeBypassesExtension ==
    /\ [](args.include # <<>> => \A i \in 1..Len(blocks) : MatchesInclude(Last(blocks[i].disp)))
    /\ [][(/\ Processing /\ args.include # <<>> /\ ExtensionExcluded(CurName)
           /\ MatchesInclude(CurName)
           /\ (args.show_hidden \/ ~IsHiddenName(CurName))
           /\ SizeWithinLimit /\ ~MatchesExclude(CurName) /\ LooksLikeText) => EmitsBlock]_vars

\* C2, amended: ... is written when its read as text succeeds.
C2_IncludeBypassesExtensionIfRead ==
    /\ [](args.include # <<>> => \A i \in 1..Len(blocks) : MatchesInclude(Last(blocks[i].disp)))
    /\ [][(/\ Processing /\ args.include # <<>> /\ ExtensionExcluded(CurName)
           /\ MatchesInclude(CurName)
           /\ (args.show_hidden \/ ~IsHiddenName(CurName))
           /\ SizeWithinLimit /\ ~MatchesExclude(CurName) /\ LooksLikeText
           /\ ReadableAsText) => EmitsBlock]_vars

\* a file with an excluded extension was written under an include pattern
C2_Witness ==
    /\ args.include # <<>>
    /\ \E i \in 1..Len(blocks) : ExtensionExcluded(Last(blocks[i].disp))

----------------------------------------------------------------------------
\* C3, as stated: a file larger than maxBytes, or of unknown size, is not
\* written; a file of exactly maxBytes that passes the other rules is.
C3_SizeLimitInclusive ==
    [][Processing =>
        /\ (~SizeWithinLimit => WritesNothing)
        /\ ((/\ Observe(Cur).err # "stat" /\ Len(CurBytes) = args.max_bytes
             /\ (args.show_hidden \/ ~IsHiddenName(CurName))
             /\ (args.include # <<>> \/ ~ExtensionExcluded(CurName))
             /\ ~MatchesExclude(CurName)
             /\ (args.include = <<>> \/ MatchesInclude(CurName))
             /\ LooksLikeText) => EmitsBlock)]_vars

\* C3, amended: ... is written when its read as text succeeds.
C3_SizeLimitInclusiveIfRead ==
    [][Processing =>
        /\ (~SizeWithinLimit => WritesNothing)
        /\ ((/\ Observe(Cur).err # "stat" /\ Len(CurBytes) = args.max_bytes
             /\ (args.show_hidden \/ ~IsHiddenName(CurName))
             /\ (args.include # <<>> \/ ~ExtensionExcluded(CurName))
             /\ ~MatchesExclude(CurName)
             /\ (args.include = <<>> \/ MatchesInclude(CurName))
             /\ LooksLikeText
             /\ ReadableAsText) => EmitsBlock)]_vars

\* a file of exactly maxBytes was written and a file of maxBytes + 1 bytes,
\* met later in the same run, was not
C3_Witness ==
    /\ pc = "done"
    /\ Len(blocks) = 1
    /\ Len(blocks[1].bytes) = args.max_bytes
    /\ LET d == fs.tree.entries[Len(fs.tree.entries)] IN
       d.kind = "dir" /\ \E j \in 1..Len(d.entries) :
            d.entries[j].kind = "file" /\ Len(d.entries[j].bytes) = args.max_bytes + 1

----------------------------------------------------------------------------
----------------------------------------------------------------------------
\* C5: a second run on the unchanged directory with the same command line
\* leaves the same bytes in the output file.
C5_RerunSameOutput == (pc = "done" /\ run > 1) => disk = prev

\* a second run ended whose output lies in the root and holds a block for
\* the output file itself, read while part of the output was in it
C5_Witness ==
    /\ pc = "done"
    /\ run = 2
    /\ \E i \in 1..Len(blocks) :
         /\ NodeAt(fs.tree, blocks[i].phys).kind = "out"
         /\ blocks[i].bytes # <<>>

----------------------------------------------------------------------------
\* C6, as stated: a hidden file is never written without showHidden; with
\* it, a hidden file that passes the size, extension, pattern and text-sniff
\* rules is written; no file beneath a hidden directory is ever written.
C6_HiddenFilesAndDirs ==
    /\ [](~args.show_hidden => \A i \in 1..Len(blocks) : ~IsHiddenName(Last(blocks[i].disp)))
    /\ [](\A i \in 1..Len(blocks) : \A d \in DirsAbove(blocks[i]) : ~IsHiddenName(d))
    /\ [][(/\ Processing /\ args.show_hidden /\ IsHiddenName(CurName)
           /\ SizeWithinLimit
           /\ (args.include # <<>> \/ ~ExtensionExcluded(CurName))
           /\ ~MatchesExclude(CurName)
           /\ (args.include = <<>> \/ MatchesInclude(CurName))
           /\ LooksLikeText) => EmitsBlock]_vars

\* C6, amended: ... is written when its read as text succeeds; no block is
\* written for a path that passes, below the root, through a directory
\* entry whose name starts with ".".
C6_HiddenFilesAndDirsOnPath ==
    /\ [](~args.show_hidden => \A i \in 1..Len(blocks) : ~IsHiddenName(Last(blocks[i].disp)))
    /\ [](\A i \in 1..Len(blocks) : \A d \in DirsOnPath(blocks[i]) : ~IsHiddenName(d))
    /\ [][(/\ Processing /\ args.show_hidden /\ IsHiddenName(CurName)
           /\ SizeWithinLimit
           /\ (args.include # <<>> \/ ~ExtensionExcluded(CurName))
           /\ ~MatchesExclude(CurName)
           /\ (args.include = <<>> \/ MatchesInclude(CurName))
           /\ LooksLikeText
           /\ ReadableAsText) => EmitsBlock]_vars

\* with showHidden a hidden file was written, and a hidden directory that
\* holds files was passed by
C6_Witness ==
    /\ pc = "done"
    /\ args.show_hidden
    /\ \E i \in 1..Len(blocks) : IsHiddenName(Last(blocks[i].disp))
    /\ \E i \in 1..Len(fs.tree.entries) :
         LET d == fs.tree.entries[i] IN
         d.kind = "dir" /\ IsHiddenName(d.name) /\ d.entries # <<>>

----------------------------------------------------------------------------
\* C7: when the root is not a directory the run ends with status 1 and a
\* message, nothing is traversed, filtered or written, and the file at the
\* output path is left as it was.
C7_NotDirFailsFast ==
    /\ [][(pc = "start" /\ fs.rootKind # "dir") =>
            /\ pc' = "exited" /\ exitCode' = 1 /\ Len(stderr') = Len(stderr) + 1
            /\ disk' = disk /\ pend' = pend /\ buf' = buf
            /\ stack' = stack /\ pending' = pending /\ blocks' = blocks /\ count' = count]_vars
    /\ [](pc = "exited" => /\ exitCode = 1 /\ stderr # <<>> /\ stdout = <<>>
                           /\ stack = <<>> /\ pending = <<>> /\ blocks = <<>>)
    /\ [][pc # "exited"]_vars

\* the run has ended on a root that is not a directory, with an older file
\* at the output path
C7_Witness == pc = "exited" /\ fs.rootKind # "dir" /\ disk.exists /\ disk.data # <<>>

----------------------------------------------------------------------------
\* C8, as stated: every invocation, however it ends, leaves an output file
\* at the output path.
C8_AlwaysAnOutputFile == pc \in {"done", "exited"} => disk.exists

\* C8, amended: an invocation whose root is a directory creates or empties
\* the output file when it starts and leaves it, closed, when it ends; an
\* invocation whose root is not a directory leaves the output path as it was.
C8_OutputFileIffRootIsDir ==
    /\ [][(pc = "start" /\ fs.rootKind = "dir") => (disk'.exists /\ disk'.data = <<>>)]_vars
    /\ [](pc \in {"loop", "done"} => disk.exists)
    /\ [](pc = "done" => exitCode = 0 /\ pend = <<>> /\ buf = <<>>)
    /\ [][(pc = "start" /\ fs.rootKind # "dir") => disk' = disk]_vars

\* a run on a directory ended where no file was at the output path before
C8_Witness == pc = "done" /\ run = 1 /\ disk.exists /\ disk.data # <<>>

----------------------------------------------------------------------------
\* C9: a file that passes the filter and whose read fails leaves the output
\* and the counter as they were and the loop goes on; the counter never
\* decreases during a run and the count printed is the number of blocks.
C9_ReadFailureSkipsWholeFile ==
    /\ [][(Processing /\ ~should_skip_file(Cur) /\ ~ReadableAsText) =>
            (WritesNothing /\ blocks' = blocks /\ pending' = Tail(pending) /\ pc' = "loop")]_vars
    /\ [][pc = "loop" => count' >= count]_vars
    /\ [](pc = "loop" => count = Len(blocks))
    /\ [](pc = "done" => stdout = <<[count |-> Len(blocks)]>> /\ disk.data = ExpectedOut(blocks))

\* the first file passed the filter and could not be read, and a later file
\* was written
C9_Witness ==
    /\ pc = "done"
    /\ fs.tree.entries[1].kind = "file"
    /\ fs.tree.entries[1].err = "read"
    /\ ~should_skip_file(Frame(<<fs.tree.entries[1].name>>, <<fs.tree.entries[1].name>>, 0))
    /\ count = 1

----------------------------------------------------------------------------
\* C10: every run on a root that is a directory ends: the loop ends, the
\* output is closed and the summary printed.
C10_RunEnds == (pc = "start" /\ fs.rootKind = "dir") ~> (pc = "done" /\ stdout # <<>>)

\* a run ended in which a link to an ancestor was followed and a file
\* reached through it was written
C10_Witness ==
    /\ pc = "done"
    /\ args.follow_symlinks
    /\ \E i \in 1..Len(blocks) :
         /\ blocks[i].links >= 1
         /\ \E k \in 1..Len(blocks[i].disp) : blocks[i].disp[k] = <<"u", "p">>

====
